---- MODULE Spec2Model ----
(***************************************************************************)
(* Detection post-processing of efficientdet-tf2: batch_threshold and the  *)
(* four non-maximum-suppression layers of core/layers/nms.py, and the      *)
(* anchor generation of inferences/efficientdet.py.                        *)
(*                                                                         *)
(* One image of the batch is followed: every loop over the batch           *)
(* (nms.py L9, L57, L174, L231) runs the same body on image i alone, and   *)
(* the batched tensor operations of FastNonMaxSuppression index each image *)
(* with its own batch index (L156-158).                                    *)
(*                                                                         *)
(* Numbers.  Scores are integers in hundredths (0.9 is 90).  Box           *)
(* coordinates are integers in units of 1/Grid of the image side.  A float *)
(* that is the result of a division is a pair <<num, den>> with den > 0;   *)
(* NaN is <<0, 0>>.  Rounding of float32 is not modelled, except in the    *)
(* soft kernel, whose scores are fixed-point numbers in units of 1/One and *)
(* whose weight is 1.0 where float32 rounds it to 1.0.                     *)
(***************************************************************************)
EXTENDS Integers, Sequences, FiniteSets, TLC

(***************************************************************************)
(* Bounds of the model and the configuration of the pipeline.              *)
(***************************************************************************)
\* anchors per image (N)
NumAnchors == 3
\* classes per score vector (C)
NumClasses == 2
\* pre_nms_size (K), 5000 in the shipped pipeline
pre_nms_size == 2
\* post_nms_size, 100 in the shipped pipeline; above pre_nms_size here, so that
\* a call can return more detections than the thresholder keeps
post_nms_size == 3
\* box coordinates are multiples of 1/Grid; the image is [0, Grid] x [0, Grid]
Grid == 30
\* iou_threshold = 0.5 = iou_threshold_num / iou_threshold_den
iou_threshold_num == 1
iou_threshold_den == 2
\* score_threshold = 0.2, in hundredths
score_threshold == 20

iou_threshold == <<iou_threshold_num, iou_threshold_den>>

(***************************************************************************)
(* The inputs: boxes (y1, x1, y2, x2) with y1 <= y2 and x1 <= x2, and      *)
(* score vectors of NumClasses probabilities.                              *)
(***************************************************************************)
\* a score vector whose class cls scores s and every other class o
Vec(cls, s, o) == [c \in 1..NumClasses |-> IF c = cls THEN s ELSE o]

BoxSet ==
    { <<0, 0, 10, 10>>,      \* the reference box
      <<0, 0, 9, 9>>,        \* IoU 81/100 with the reference box
      <<20, 20, 30, 30>>,    \* disjoint from the others
      <<0, 0, 0, 10>> }      \* zero area (a box clipped at the image edge)

ScoreSet ==
    { Vec(NumClasses, 20, 5),    \* best score equal to score_threshold, last class
      Vec(1, 90, 30),            \* class 0, the other classes lower
      Vec(1, 95, 95) }           \* every class ties

ZeroBox == <<0, 0, 0, 0>>
ZeroVec == [c \in 1..NumClasses |-> 0]

VARIABLES
    predicted_boxes,    \* the image's N boxes
    predicted_scores,   \* the image's N score vectors
    called,             \* the operation that was called, "none" before
    build,              \* what the build leaves open, fixed by the call
    locals,             \* the intermediate tensors of the call
    ret,                \* what the call returned or raised
    again               \* what the same layer returned for ret's detections

vars == <<predicted_boxes, predicted_scores, called, build, locals, ret, again>>

(***************************************************************************)
(* Tensor helpers.                                                         *)
(***************************************************************************)
Range(s) == {s[i] : i \in DOMAIN s}

Max2(a, b) == IF a >= b THEN a ELSE b
Min2(a, b) == IF a <= b THEN a ELSE b

\* tf.reduce_max over the last axis of an integer vector
reduce_max(vec) == CHOOSE m \in Range(vec) : \A x \in Range(vec) : x <= m

\* tf.argmax over the last axis: the first index of the maximum, 0-based
argmax(vec) ==
    (CHOOSE c \in DOMAIN vec :
        /\ vec[c] = reduce_max(vec)
        /\ \A d \in DOMAIN vec : vec[d] = reduce_max(vec) => c <= d) - 1

\* tf.gather on axis 0
gather(params, indices) == [r \in 1..Len(indices) |-> params[indices[r]]]

\* the indices where mask is TRUE, ascending: tf.boolean_mask(x, mask) is
\* gather(x, mask_indices(mask))
mask_indices(mask) ==
    LET Held(n) == mask[n]
    IN  SelectSeq([n \in 1..Len(mask) |-> n], Held)

boolean_mask(tensor, mask) == gather(tensor, mask_indices(mask))

\* The position of element i when values are sorted descending, equal values
\* in ascending index order (tf.nn.top_k: "if two elements are equal, the
\* lower-index element appears first"; tf.argsort DESCENDING is built on it).
rank_desc(values, i) ==
    1 + Cardinality({j \in DOMAIN values :
                        \/ values[j] > values[i]
                        \/ values[j] = values[i] /\ j < i})

argsort_desc(values) ==
    [r \in 1..Len(values) |-> CHOOSE i \in DOMAIN values : rank_desc(values, i) = r]

\* tf.nn.top_k(values, k): the indices of the k largest, descending
\* the first k indices, unsorted
top_k_first(values, k) == SubSeq([i \in 1..Len(values) |-> i], 1, k)
top_k(values, k) == SubSeq(argsort_desc(values), 1, k)

zeros(n, row) == [r \in 1..n |-> row]

(***************************************************************************)
(* batch_threshold, nms.py L4-29, on one image.                            *)
(***************************************************************************)
batch_threshold(boxes, scores, max_scores, thr, k) ==
    LET \* L8: every score below the anchor's maximum becomes 0
        scores0 == [n \in 1..Len(scores) |->
                      [c \in DOMAIN scores[n] |->
                         IF scores[n][c] < max_scores[n] THEN 0 ELSE scores[n][c]]]
        \* L10-12
        thresholded_mask == [n \in 1..Len(max_scores) |-> max_scores[n] > thr]
        thresholded_boxes == boolean_mask(boxes, thresholded_mask)
        thresholded_scores == boolean_mask(scores0, thresholded_mask)
        num == Len(thresholded_scores)
    IN  IF num <= k
        THEN \* L17-20
             [boxes  |-> thresholded_boxes \o zeros(k - num, ZeroBox),
              scores |-> thresholded_scores \o zeros(k - num, ZeroVec)]
        ELSE \* L22-24
             LET topk_inds == top_k(boolean_mask(max_scores, thresholded_mask), k)
             IN  [boxes  |-> gather(thresholded_boxes, topk_inds),
                  scores |-> gather(thresholded_scores, topk_inds)]

\* max_predicted_scores = tf.reduce_max(predicted_scores, -1)
max_predicted_scores(scores) == [n \in 1..Len(scores) |-> reduce_max(scores[n])]

(***************************************************************************)
(* Floats that come out of a division: <<num, den>>, den > 0; NaN <<0,0>>. *)
(***************************************************************************)
NaN == <<0, 0>>
IsNaN(x) == x[2] = 0
Float(n) == <<n, 1>>
\* the lowest float, where a maximum starts; every IoU is >= 0
Lowest == <<-1, 1>>

\* a / b in float32 for a >= 0, b >= 0: 0/0 is NaN (an overlap never exceeds
\* either area, so b = 0 forces a = 0)
fdiv(a, b) == IF b = 0 THEN NaN ELSE <<a, b>>

\* x - y: NaN when either is
fsub(x, y) ==
    IF IsNaN(x) \/ IsNaN(y) THEN NaN
    ELSE <<x[1] * y[2] - y[1] * x[2], x[2] * y[2]>>

\* tf.less, tf.greater: FALSE when either side is NaN
fless(x, y) == ~IsNaN(x) /\ ~IsNaN(y) /\ x[1] * y[2] < y[1] * x[2]
fgreater(x, y) == fless(y, x)
fequal(x, y) == ~IsNaN(x) /\ ~IsNaN(y) /\ x[1] * y[2] = y[1] * x[2]

\* tf.reduce_max of a set of floats.  With a NaN among them the kernel's answer
\* depends on the build (Eigen's max reducer on the CPU, the GPU reduction):
\* the NaN, or the maximum of the others.
freduce_max(S, nan_propagates) ==
    LET nums == {x \in S : ~IsNaN(x)}
    IN  IF nan_propagates /\ nums # S THEN NaN
        ELSE IF nums = {} THEN Lowest
        ELSE CHOOSE m \in nums : \A x \in nums : ~fless(m, x)

(***************************************************************************)
(* FastNonMaxSuppression, nms.py L111-203.                                 *)
(***************************************************************************)
\* L124-134 for one pair of boxes
box_iou(boxes1, boxes2) ==
    LET lt0 == Max2(boxes1[1], boxes2[1])
        lt1 == Max2(boxes1[2], boxes2[2])
        rb0 == Min2(boxes1[3], boxes2[3])
        rb1 == Min2(boxes1[4], boxes2[4])
        overlap == Max2(0, rb0 - lt0) * Max2(0, rb1 - lt1)
        area1 == (boxes1[3] - boxes1[1]) * (boxes1[4] - boxes1[2])
        area2 == (boxes2[3] - boxes2[1]) * (boxes2[4] - boxes2[2])
    IN  fdiv(overlap, area1 + area2 - overlap)

\* unaligned_box_iou on one class row of k boxes: ious[i][j], L115-136
unaligned_box_iou(boxes) ==
    [i \in 1..Len(boxes) |-> [j \in 1..Len(boxes) |-> box_iou(boxes[i], boxes[j])]]

\* tf.linalg.band_part(m, 0, num_upper): entries below the diagonal, and those
\* more than num_upper above it (num_upper >= 0), become 0
band_part(m, num_upper) ==
    [i \in 1..Len(m) |-> [j \in 1..Len(m) |->
        IF j >= i /\ (num_upper < 0 \/ j - i <= num_upper) THEN m[i][j] ELSE Float(0)]]

\* L161: band_part(ious, 0, -1) - band_part(ious, 0, 0)
strict_upper(m) ==
    LET upper == band_part(m, -1)
        diag == band_part(m, 0)
    IN  [i \in 1..Len(m) |-> [j \in 1..Len(m) |-> fsub(upper[i][j], diag[i][j])]]

\* L164-166 for one box
\* the IoU test of L164 left out
fast_keep_no_iou(max_iou, score) == score > score_threshold
fast_keep(max_iou, score) ==
    /\ fless(max_iou, iou_threshold)
    /\ score > score_threshold

\* L178-188: pad with zero boxes, zero scores and class -1, or truncate
fast_assemble(boxes, scores, classes, max_total_size) ==
    LET num == Len(scores)
    IN  IF num < max_total_size
        THEN [kind |-> "dict",
              nmsed_boxes |-> boxes \o zeros(max_total_size - num, ZeroBox),
              nmsed_scores |-> scores \o zeros(max_total_size - num, 0),
              nmsed_classes |-> classes \o zeros(max_total_size - num, -1),
              valid_detections |-> num]
        ELSE [kind |-> "dict",
              nmsed_boxes |-> SubSeq(boxes, 1, max_total_size),
              nmsed_scores |-> SubSeq(scores, 1, max_total_size),
              nmsed_classes |-> SubSeq(classes, 1, max_total_size),
              valid_detections |-> max_total_size]

\* L140-168: the tensors of image i up to the keep mask
fast_locals(boxes, scores, nan_propagates) ==
    LET k == pre_nms_size
        th == batch_threshold(boxes, scores, max_predicted_scores(scores),
                              score_threshold, k)
        \* L153: one row per class
        thresholded_scores == [c \in 1..NumClasses |-> [n \in 1..k |-> th.scores[n][c]]]
        \* L155-159
        sorted_inds == [c \in 1..NumClasses |-> argsort_desc(thresholded_scores[c])]
        sorted_boxes == [c \in 1..NumClasses |-> gather(th.boxes, sorted_inds[c])]
        sorted_scores ==
            [c \in 1..NumClasses |-> gather(thresholded_scores[c], sorted_inds[c])]
        \* L160-162
        raw_ious == [c \in 1..NumClasses |-> unaligned_box_iou(sorted_boxes[c])]
        ious == [c \in 1..NumClasses |-> strict_upper(raw_ious[c])]
        max_ious == [c \in 1..NumClasses |-> [j \in 1..k |->
                       freduce_max({ious[c][i][j] : i \in 1..k}, nan_propagates)]]
        \* L164-166
        keep == [c \in 1..NumClasses |-> [j \in 1..k |->
                   fast_keep(max_ious[c][j], sorted_scores[c][j])]]
    IN  [op |-> "fast", thresholded |-> th, sorted_inds |-> sorted_inds,
         sorted_boxes |-> sorted_boxes, sorted_scores |-> sorted_scores,
         raw_ious |-> raw_ious, ious |-> ious, max_ious |-> max_ious, keep |-> keep]

\* a (c, k) tensor flattened row by row, as tf.boolean_mask does with a 2-D mask
flatten(t) ==
    LET k == Len(t[1])
    IN  [f \in 1..(Len(t) * k) |-> t[((f - 1) \div k) + 1][((f - 1) % k) + 1]]

\* L167-203 for image i
fast_result(l) ==
    LET k == Len(l.keep[1])
        \* L168: total_classes[c][j] = c, 0-based
        total_classes == [c \in 1..Len(l.keep) |-> [j \in 1..k |-> c - 1]]
        mask == flatten(l.keep)
    IN  fast_assemble(boolean_mask(flatten(l.sorted_boxes), mask),
                      boolean_mask(flatten(l.sorted_scores), mask),
                      boolean_mask(flatten(total_classes), mask),
                      post_nms_size)

(***************************************************************************)
(* The TensorFlow suppression kernels the other three layers call.         *)
(***************************************************************************)
\* The kernels' IOU: 0 when either box has no area
tf_iou(a, b) ==
    LET area_a == (a[3] - a[1]) * (a[4] - a[2])
        area_b == (b[3] - b[1]) * (b[4] - b[2])
        h == Max2(0, Min2(a[3], b[3]) - Max2(a[1], b[1]))
        w == Max2(0, Min2(a[4], b[4]) - Max2(a[2], b[2]))
    IN  IF area_a <= 0 \/ area_b <= 0 THEN Float(0)
        ELSE <<h * w, area_a + area_b - h * w>>

\* descending order with equal values in descending index order
argsort_desc_rev(values) ==
    [r \in 1..Len(values) |->
        CHOOSE i \in DOMAIN values :
            r = 1 + Cardinality({j \in DOMAIN values :
                                    \/ values[j] > values[i]
                                    \/ values[j] = values[i] /\ j > i})]

\* the kernels' candidate order: by score, descending.  tf.image.
\* non_max_suppression takes equal scores in index order; the batched kernel
\* of combined_non_max_suppression leaves their order to the build.
candidate_order(scores, ties_reversed) ==
    IF ties_reversed THEN argsort_desc_rev(scores) ELSE argsort_desc(scores)

\* whether a candidate survives the boxes selected so far
survives(boxes, selected, cand, iou_thr) ==
    \A s \in Range(selected) : ~fgreater(tf_iou(boxes[cand], boxes[s]), iou_thr)

\* the greedy loop over the candidates from position p on
RECURSIVE greedy_select(_, _, _, _, _, _)
greedy_select(boxes, order, p, selected, max_output_size, iou_thr) ==
    IF p > Len(order) \/ Len(selected) >= max_output_size THEN selected
    ELSE IF survives(boxes, selected, order[p], iou_thr)
         THEN greedy_select(boxes, order, p + 1, Append(selected, order[p]),
                            max_output_size, iou_thr)
         ELSE greedy_select(boxes, order, p + 1, selected, max_output_size, iou_thr)

\* tf.image.non_max_suppression: the selected indices, best first.  Only
\* boxes scoring above score_thr are candidates; a candidate is dropped when
\* its IoU with a selected box is greater than iou_thr.
\* every box a candidate, whatever its score
is_candidate_any(score, score_thr) == TRUE
is_candidate(score, score_thr) == score > score_thr

non_max_suppression(boxes, scores, max_output_size, iou_thr, score_thr, ties_reversed) ==
    LET order == candidate_order(scores, ties_reversed)
        Candidate(i) == is_candidate(scores[i], score_thr)
    IN  greedy_select(boxes, SelectSeq(order, Candidate), 1, <<>>,
                      max_output_size, iou_thr)

\* tf.unique: the distinct values in order of first appearance
unique(x) ==
    boolean_mask(x, [n \in 1..Len(x) |-> \A m \in 1..(n - 1) : x[m] # x[n]])

Raised(error, line) == [kind |-> "raised", error |-> error, line |-> line]

(***************************************************************************)
(* BatchNonMaxSuppression, nms.py L32-108.                                 *)
(***************************************************************************)
\* L58-85: the per-class selections of image i, concatenated
RECURSIVE standard_classes(_, _, _, _, _)
standard_classes(unique_classes, p, boxes, scores, classes) ==
    IF p > Len(unique_classes)
    THEN [boxes |-> <<>>, scores |-> <<>>, classes |-> <<>>]
    ELSE LET c == unique_classes[p]
             current_mask == [n \in 1..Len(classes) |-> classes[n] = c]
             current_boxes == boolean_mask(boxes, current_mask)
             current_scores == boolean_mask(scores, current_mask)
             current_classes == boolean_mask(classes, current_mask)
             selected_indices ==
                 non_max_suppression(current_boxes, current_scores, post_nms_size,
                                     iou_threshold, score_threshold, FALSE)
             rest == standard_classes(unique_classes, p + 1, boxes, scores, classes)
         IN  [boxes |-> gather(current_boxes, selected_indices) \o rest.boxes,
              scores |-> gather(current_scores, selected_indices) \o rest.scores,
              classes |-> gather(current_classes, selected_indices) \o rest.classes]

\* L47-85
standard_locals(boxes, scores) ==
    LET th == batch_threshold(boxes, scores, max_predicted_scores(scores),
                              score_threshold, pre_nms_size)
        thresholded_classes == [n \in 1..Len(th.scores) |-> argmax(th.scores[n])]
        thresholded_scores == [n \in 1..Len(th.scores) |-> reduce_max(th.scores[n])]
        tmp == standard_classes(unique(thresholded_classes), 1, th.boxes,
                                thresholded_scores, thresholded_classes)
    IN  [op |-> "standard", thresholded |-> th,
         thresholded_classes |-> thresholded_classes,
         thresholded_scores |-> thresholded_scores,
         tmp_boxes |-> tmp.boxes, tmp_scores |-> tmp.scores,
         tmp_classes |-> tmp.classes]

\* L87: tf.argmax(tmp_scores)[:post_nms_size].  tf.argmax of a vector is one
\* index, a tensor of rank 0, and the slice of a rank-0 tensor raises ("Index
\* out of range using input dim 0; input has only 0 dims"); tf.argmax of an
\* empty vector raises before it ("Reduction axis 0 is empty").
argmax_slice(tmp_scores, n) == Raised("InvalidArgumentError", 87)

\* L88-108 with the indices of L87: the image's entry of the returned dict,
\* nmsed_boxes stacked from nmsed_scores_ta (L105).  boxes, scores and classes
\* are bound only under L92.
standard_assemble(l, sorted_indices) ==
    LET sorted_boxes == gather(l.tmp_boxes, sorted_indices)
        sorted_scores == gather(l.tmp_scores, sorted_indices)
        sorted_classes == gather(l.tmp_classes, sorted_indices)
        num == Len(sorted_indices)
    IN  IF num < post_nms_size
        THEN [kind |-> "dict",
              nmsed_boxes |-> sorted_scores \o zeros(post_nms_size - num, 0),
              nmsed_scores |-> sorted_scores \o zeros(post_nms_size - num, 0),
              nmsed_classes |-> sorted_classes \o zeros(post_nms_size - num, -1),
              valid_detections |-> num]
        ELSE Raised("UnboundLocalError", 100)

\* __call__: self.cfg is read at L52, and __init__ (L33-38) never sets it
BatchNonMaxSuppression_result(l, has_cfg) ==
    IF ~has_cfg THEN Raised("AttributeError", 52)
    ELSE LET sorted_indices == argmax_slice(l.tmp_scores, post_nms_size)
         IN  IF sorted_indices.kind = "raised" THEN sorted_indices
             ELSE standard_assemble(l, sorted_indices.value)

(***************************************************************************)
(* BatchSoftNonMaxSuppression, nms.py L206-283: self.cfg is read at L230,  *)
(* and L262 is the slice of L87.                                           *)
(***************************************************************************)
BatchSoftNonMaxSuppression_result(has_cfg) ==
    IF ~has_cfg THEN Raised("AttributeError", 230)
    ELSE Raised("InvalidArgumentError", 262)

(***************************************************************************)
(* tf.image.non_max_suppression_with_scores with soft_nms_sigma > 0, the   *)
(* kernel BatchSoftNonMaxSuppression calls at L247-253.  The kernel keeps  *)
(* the candidates in a priority queue by score; it pops the best one,      *)
(* multiplies its score by exp(-0.5 / sigma * iou^2) for every box         *)
(* selected since the candidate was last popped, selects it when its score *)
(* came out unchanged and puts it back when the score fell but is still    *)
(* above score_threshold.  With soft_nms_sigma > 0 no box is dropped for   *)
(* its IoU alone.                                                          *)
(***************************************************************************)
\* the kernel's scores are fixed-point numbers in units of 1/One
One == 10000
\* soft_nms_sigma = 0.5 = soft_nms_sigma_num / soft_nms_sigma_den
soft_nms_sigma_num == 1
soft_nms_sigma_den == 2
\* exp(-x) is 1.0 in float32 when x <= 2^-25, that is, with sigma = 0.5, when
\* iou <= 2^-12.5: iou * RoundsToOne <= 1
RoundsToOne == 5793

\* a score in hundredths as a kernel score
to_kernel(score) == score * (One \div 100)

\* exp(-X / One) in units of 1/One for X in 0..One, by Taylor's series
exp_neg(X) ==
    LET t1 == X
        t2 == (t1 * X) \div (2 * One)
        t3 == (t2 * X) \div (3 * One)
        t4 == (t3 * X) \div (4 * One)
        t5 == (t4 * X) \div (5 * One)
        t6 == (t5 * X) \div (6 * One)
    IN  One - t1 + t2 - t3 + t4 - t5 + t6

\* suppress_weight of the kernel: exp(scale * sim * sim), scale = -0.5 / sigma
suppress_weight(sim) ==
    IF sim[1] * RoundsToOne <= sim[2] THEN One
    ELSE LET I == (sim[1] * One) \div sim[2]
             X == (I * I * soft_nms_sigma_den) \div (2 * soft_nms_sigma_num * One)
         IN  Min2(One - 1, exp_neg(X))

\* next_candidate.score *= suppress_weight(similarity)
decayed(score, weight) == (score * weight) \div One

\* The inner loop of the kernel for one popped candidate: j runs from the last
\* selected box down to the first one selected since the candidate was last
\* popped, and stops once the score is at or below score_thr.  The result is
\* the score and the multiplications made, last first.
RECURSIVE soft_decay(_, _, _, _, _, _, _)
soft_decay(boxes, cand, selected, j, begin, score, score_thr) ==
    IF j <= begin THEN [score |-> score, decays |-> <<>>]
    ELSE LET similarity == tf_iou(boxes[cand], boxes[selected[j]])
             after == decayed(score, suppress_weight(similarity))
             step == [box |-> cand, selected |-> selected[j], iou |-> similarity,
                      before |-> score, after |-> after]
         IN  IF after <= score_thr
             THEN [score |-> after, decays |-> <<step>>]
             ELSE LET rest == soft_decay(boxes, cand, selected, j - 1, begin,
                                         after, score_thr)
                  IN  [score |-> rest.score, decays |-> <<step>> \o rest.decays]

\* the candidate the priority queue pops: the best score, the lower box index
\* among equal scores
queue_top(queue) ==
    CHOOSE c \in queue :
        \A d \in queue : \/ d.score < c.score
                         \/ d.score = c.score /\ d.box_index >= c.box_index

\* the queue the kernel starts from: the boxes scoring above score_thr
soft_queue(scores, score_thr) ==
    { [box_index |-> i, score |-> to_kernel(scores[i]), suppress_begin_index |-> 0] :
        i \in {n \in 1..Len(scores) : to_kernel(scores[n]) > score_thr} }

\* one turn of the kernel's while loop on the state k = [queue, selected,
\* selected_scores, decays]
soft_kernel_step(boxes, k, score_thr) ==
    LET next_candidate == queue_top(k.queue)
        d == soft_decay(boxes, next_candidate.box_index, k.selected,
                        Len(k.selected), next_candidate.suppress_begin_index,
                        next_candidate.score, score_thr)
        popped == k.queue \ {next_candidate}
        pushed == [next_candidate EXCEPT !.score = d.score,
                                         !.suppress_begin_index = Len(k.selected)]
    IN  IF d.score = next_candidate.score
        THEN [queue |-> popped,
              selected |-> Append(k.selected, next_candidate.box_index),
              selected_scores |-> Append(k.selected_scores, d.score),
              decays |-> d.decays]
        ELSE [queue |-> IF d.score > score_thr THEN popped \cup {pushed} ELSE popped,
              selected |-> k.selected,
              selected_scores |-> k.selected_scores,
              decays |-> d.decays]

\* the while loop's condition
soft_kernel_running(k, max_output_size) ==
    Len(k.selected) < max_output_size /\ k.queue # {}

(***************************************************************************)
(* CombinedNonMaxSuppression, nms.py L286-307.                             *)
(***************************************************************************)
\* clip_boxes = True, the default of tf.image.combined_non_max_suppression
clip_box(b) ==
    [d \in 1..4 |-> Max2(0, Min2(Grid, b[d]))]

\* the selections of classes c..C as (box index, score, class) entries
RECURSIVE combined_classes(_, _, _, _, _)
combined_classes(boxes, scores, c, max_per_class, ties_reversed) ==
    IF c > NumClasses THEN <<>>
    ELSE LET class_scores == [n \in 1..Len(scores) |-> scores[n][c]]
             sel == non_max_suppression(boxes, class_scores, max_per_class,
                                        iou_threshold, score_threshold, ties_reversed)
         IN  [r \in 1..Len(sel) |->
                 [box |-> boxes[sel[r]], score |-> class_scores[sel[r]], class |-> c - 1]]
             \o combined_classes(boxes, scores, c + 1, max_per_class, ties_reversed)

\* tf.image.combined_non_max_suppression with one box per anchor shared by the
\* classes: per class greedy selection, the selections of all classes sorted
\* by score, the best max_total_size kept, the rest of the slots zero
combined_non_max_suppression(boxes, scores, max_per_class, max_total_size, ties_reversed) ==
    LET all == combined_classes(boxes, scores, 1, max_per_class, ties_reversed)
        order == candidate_order([r \in 1..Len(all) |-> all[r].score], ties_reversed)
        num == Min2(Len(all), max_total_size)
        best == [r \in 1..num |-> all[order[r]]]
    IN  [kind |-> "dict",
         nmsed_boxes |-> [r \in 1..num |-> clip_box(best[r].box)]
                         \o zeros(max_total_size - num, ZeroBox),
         nmsed_scores |-> [r \in 1..num |-> best[r].score]
                          \o zeros(max_total_size - num, 0),
         nmsed_classes |-> [r \in 1..num |-> best[r].class]
                           \o zeros(max_total_size - num, 0),
         valid_detections |-> num]

\* L296-307
CombinedNonMaxSuppression_result(boxes, scores, ties_reversed) ==
    LET th == batch_threshold(boxes, scores, max_predicted_scores(scores),
                              score_threshold, pre_nms_size)
    IN  combined_non_max_suppression(th.boxes, th.scores, post_nms_size,
                                     post_nms_size, ties_reversed)

NoBuild == [nan_propagates |-> FALSE, ties_reversed |-> FALSE]
NoLocals == [op |-> "none"]

TypeInit ==
    /\ predicted_boxes \in [1..NumAnchors -> BoxSet]
    /\ predicted_scores \in [1..NumAnchors -> ScoreSet]

Init ==
    /\ TypeInit
    /\ called = "none"
    /\ build = NoBuild
    /\ locals = NoLocals
    /\ ret = [kind |-> "none"]
    /\ again = [kind |-> "none"]

\* a direct call of batch_threshold as the layers make it
Call_batch_threshold ==
    /\ called = "none"
    /\ called' = "batch_threshold"
    /\ ret' = [kind |-> "tensors",
               value |-> batch_threshold(predicted_boxes, predicted_scores,
                                         max_predicted_scores(predicted_scores),
                                         score_threshold, pre_nms_size)]
    /\ UNCHANGED <<predicted_boxes, predicted_scores, build, locals, again>>

\* FastNonMaxSuppression.__call__ on the image
Call_FastNonMaxSuppression ==
    /\ called = "none"
    /\ \E nan_propagates \in BOOLEAN :
          /\ build' = [build EXCEPT !.nan_propagates = nan_propagates]
          /\ locals' = fast_locals(predicted_boxes, predicted_scores, nan_propagates)
    /\ ret' = fast_result(locals')
    /\ called' = "fast"
    /\ UNCHANGED <<predicted_boxes, predicted_scores, again>>

\* BatchNonMaxSuppression.__call__ on the image; has_cfg: whether the caller
\* attached a cfg attribute to the layer, which its constructor does not
Call_BatchNonMaxSuppression ==
    /\ called = "none"
    /\ \E has_cfg \in BOOLEAN :
          /\ locals' = IF has_cfg
                       THEN standard_locals(predicted_boxes, predicted_scores)
                       ELSE NoLocals
          /\ ret' = BatchNonMaxSuppression_result(locals', has_cfg)
    /\ called' = "standard"
    /\ UNCHANGED <<predicted_boxes, predicted_scores, build, again>>

\* BatchSoftNonMaxSuppression.__call__ on the image
Call_BatchSoftNonMaxSuppression ==
    /\ called = "none"
    /\ \E has_cfg \in BOOLEAN : ret' = BatchSoftNonMaxSuppression_result(has_cfg)
    /\ called' = "soft"
    /\ UNCHANGED <<predicted_boxes, predicted_scores, build, locals, again>>

\* CombinedNonMaxSuppression.__call__ on the image
Call_CombinedNonMaxSuppression ==
    /\ called = "none"
    /\ \E ties_reversed \in BOOLEAN :
          /\ build' = [build EXCEPT !.ties_reversed = ties_reversed]
          /\ ret' = CombinedNonMaxSuppression_result(predicted_boxes, predicted_scores,
                                                    ties_reversed)
    /\ called' = "combined"
    /\ UNCHANGED <<predicted_boxes, predicted_scores, locals, again>>

\* The detections a call returned, as the input of a further call: the boxes
\* of the valid slots, each with a score vector holding its score at its class.
detection_boxes(r) == SubSeq(r.nmsed_boxes, 1, r.valid_detections)
detection_scores(r) ==
    [n \in 1..r.valid_detections |-> Vec(r.nmsed_classes[n] + 1, r.nmsed_scores[n], 0)]

\* the layer that returned ret is called on ret's detections, in the same build
Call_again ==
    /\ called \in {"fast", "combined"}
    /\ ret.kind = "dict"
    /\ again.kind = "none"
    /\ again' =
          IF called = "fast"
          THEN fast_result(fast_locals(detection_boxes(ret), detection_scores(ret),
                                       build.nan_propagates))
          ELSE CombinedNonMaxSuppression_result(detection_boxes(ret),
                                                detection_scores(ret),
                                                build.ties_reversed)
    /\ UNCHANGED <<predicted_boxes, predicted_scores, called, build, locals, ret>>

Next ==
    \/ Call_again
    \/ Call_batch_threshold
    \/ Call_FastNonMaxSuppression
    \/ Call_BatchNonMaxSuppression
    \/ Call_BatchSoftNonMaxSuppression
    \/ Call_CombinedNonMaxSuppression

Spec == Init /\ [][Next]_vars

(***************************************************************************)
(* BatchSoftNonMaxSuppression.__call__ followed statement by statement:    *)
(* the thresholding, the loop over the classes of the image, the turns of  *)
(* the kernel's loop for each class, and the assembly of the result.  Box  *)
(* coordinates are in units of 1/120 of the image side here.               *)
(***************************************************************************)
SoftBoxSet ==
    { <<0, 0, 60, 60>>,        \* the reference box
      <<0, 0, 60, 30>>,        \* IoU 1/2 with the reference box
      <<59, 59, 120, 120>> }   \* IoU 1/7320 with the reference box

SoftScoreSet ==
    { Vec(1, 90, 30),
      Vec(1, 50, 10),            \* falls to score_threshold or below at IoU 1
      Vec(NumClasses, 60, 5),
      Vec(NumClasses, 20, 5) }   \* best score equal to score_threshold

EmptyKernel == [queue |-> {}, selected |-> <<>>, selected_scores |-> <<>>,
                decays |-> <<>>]

SoftInit ==
    /\ predicted_boxes \in [1..NumAnchors -> SoftBoxSet]
    /\ predicted_scores \in [1..NumAnchors -> SoftScoreSet]
    /\ called = "none"
    /\ build = NoBuild
    /\ locals = NoLocals
    /\ ret = [kind |-> "none"]
    /\ again = [kind |-> "none"]

\* L222-230: the thresholding, and the read of self.cfg
Soft_threshold ==
    /\ called = "none"
    /\ called' = "soft"
    /\ \E has_cfg \in BOOLEAN :
          LET th == batch_threshold(predicted_boxes, predicted_scores,
                                    max_predicted_scores(predicted_scores),
                                    score_threshold, pre_nms_size)
              thresholded_classes == [n \in 1..Len(th.scores) |-> argmax(th.scores[n])]
              thresholded_scores == [n \in 1..Len(th.scores) |-> reduce_max(th.scores[n])]
          IN  /\ locals' = [op |-> "soft",
                            pc |-> IF has_cfg THEN "classes" ELSE "raised",
                            thresholded_boxes |-> th.boxes,
                            thresholded_scores |-> thresholded_scores,
                            thresholded_classes |-> thresholded_classes,
                            unique_classes |-> unique(thresholded_classes),
                            p |-> 1,
                            current_boxes |-> <<>>, current_scores |-> <<>>,
                            current_classes |-> <<>>,
                            k |-> EmptyKernel,
                            tmp_boxes |-> <<>>, tmp_scores |-> <<>>,
                            tmp_classes |-> <<>>, tmp_kernel_scores |-> <<>>]
              /\ ret' = IF has_cfg THEN ret
                        ELSE BatchSoftNonMaxSuppression_result(FALSE)
    /\ UNCHANGED <<predicted_boxes, predicted_scores, build, again>>

\* L242-253: the boxes of the next class, handed to the kernel
Soft_class_begin ==
    /\ locals.op = "soft"
    /\ locals.pc = "classes"
    /\ locals.p <= Len(locals.unique_classes)
    /\ LET c == locals.unique_classes[locals.p]
           current_mask == [n \in 1..Len(locals.thresholded_classes) |->
                               locals.thresholded_classes[n] = c]
           current_scores == boolean_mask(locals.thresholded_scores, current_mask)
       IN  locals' = [locals EXCEPT
               !.pc = "kernel",
               !.current_boxes = boolean_mask(locals.thresholded_boxes, current_mask),
               !.current_scores = current_scores,
               !.current_classes = boolean_mask(locals.thresholded_classes, current_mask),
               !.k = [EmptyKernel EXCEPT
                         !.queue = soft_queue(current_scores,
                                              to_kernel(score_threshold))]]
    /\ UNCHANGED <<predicted_boxes, predicted_scores, called, build, ret, again>>

\* one turn of the kernel's loop
Soft_kernel_step ==
    /\ locals.op = "soft"
    /\ locals.pc = "kernel"
    /\ soft_kernel_running(locals.k, post_nms_size)
    /\ locals' = [locals EXCEPT
           !.k = soft_kernel_step(locals.current_boxes, locals.k,
                                  to_kernel(score_threshold))]
    /\ UNCHANGED <<predicted_boxes, predicted_scores, called, build, ret, again>>

\* L247-260: the kernel returns, its scores are dropped ("selected_indices, _"),
\* and the selection is gathered from the class's boxes, scores and classes
Soft_class_end ==
    /\ locals.op = "soft"
    /\ locals.pc = "kernel"
    /\ ~soft_kernel_running(locals.k, post_nms_size)
    /\ LET selected_indices == locals.k.selected
       IN  locals' = [locals EXCEPT
               !.pc = "classes",
               !.p = locals.p + 1,
               !.k = EmptyKernel,
               !.tmp_boxes = locals.tmp_boxes
                                \o gather(locals.current_boxes, selected_indices),
               !.tmp_scores = locals.tmp_scores
                                 \o gather(locals.current_scores, selected_indices),
               !.tmp_classes = locals.tmp_classes
                                  \o gather(locals.current_classes, selected_indices),
               !.tmp_kernel_scores = locals.tmp_kernel_scores
                                        \o locals.k.selected_scores]
    /\ UNCHANGED <<predicted_boxes, predicted_scores, called, build, ret, again>>

\* L262-283: the assembly of the result
Soft_assemble ==
    /\ locals.op = "soft"
    /\ locals.pc = "classes"
    /\ locals.p > Len(locals.unique_classes)
    /\ locals' = [locals EXCEPT !.pc = "done"]
    /\ ret' = BatchSoftNonMaxSuppression_result(TRUE)
    /\ UNCHANGED <<predicted_boxes, predicted_scores, called, build, again>>

SoftNext ==
    \/ Soft_threshold
    \/ Soft_class_begin
    \/ Soft_kernel_step
    \/ Soft_class_end
    \/ Soft_assemble

SoftSpec == SoftInit /\ [][SoftNext]_vars

(***************************************************************************)
(* FastNonMaxSuppression on boxes that overlap one another in every way    *)
(* the keep rule tells apart.                                              *)
(***************************************************************************)
FastBoxSet ==
    { <<0, 0, 10, 10>>,     \* the reference box
      <<0, 0, 10, 5>>,      \* IoU 1/2 with the reference box: equal to iou_threshold
      <<0, 3, 10, 13>>,     \* IoU 7/13 with the reference box and with the next
      <<0, 6, 10, 16>>,     \* IoU 1/4 with the reference box
      <<0, 0, 0, 10>> }     \* zero area

FastScoreSet ==
    { Vec(1, 90, 30),
      Vec(1, 80, 10) }

FastInit ==
    /\ predicted_boxes \in [1..NumAnchors -> FastBoxSet]
    /\ predicted_scores \in [1..NumAnchors -> FastScoreSet]
    /\ called = "none"
    /\ build = NoBuild
    /\ locals = NoLocals
    /\ ret = [kind |-> "none"]
    /\ again = [kind |-> "none"]

FastNext == Call_FastNonMaxSuppression

FastSpec == FastInit /\ [][FastNext]_vars

(***************************************************************************)
(* Anchor generation, inferences/efficientdet.py L11-78.  An anchor is     *)
(* kept as its configuration and its centre: a box's four coordinates are  *)
(* the centre minus and plus half the anchor size (L69-70), and the anchor *)
(* size is a function of the configuration alone (L59-61).  Centres are    *)
(* doubled, so that stride / 2 is an integer.                              *)
(***************************************************************************)
\* the largest height and width of the image
MaxImageSize == 8
\* the largest pyramid level
MaxLevel == 2
\* the largest num_scales and the largest number of aspect ratios
MaxScales == 2
MaxAspects == 2

\* L27-33: the dictionary as its items in insertion order, each a pair of a
\* level and the level's configurations (stride, octave scale, aspect); the
\* octave scale scale_octave / num_scales is kept as a pair
_generate_anchor_configs(min_level, max_level, num_scales, aspect_ratios) ==
    [l \in 1..(max_level - min_level + 1) |->
        LET level == min_level + l - 1
        IN  <<level,
              [i \in 1..(num_scales * Len(aspect_ratios)) |->
                  LET scale_octave == (i - 1) \div Len(aspect_ratios)
                      aspect == aspect_ratios[((i - 1) % Len(aspect_ratios)) + 1]
                  IN  <<2 ^ level, <<scale_octave, num_scales>>, aspect>>]>>]

\* np.arange(stride / 2, stop, stride), doubled: ceil((stop - stride / 2) / stride)
\* values from stride / 2 in steps of stride
arange(stop, stride) ==
    LET n == IF 2 * stop <= stride THEN 0
             ELSE (2 * stop - stride + 2 * stride - 1) \div (2 * stride)
    IN  [i \in 1..n |-> stride + 2 * (i - 1) * stride]

\* L63-75 for one level: the cells row by row (np.meshgrid(x, y) flattened),
\* and for every cell the anchors of all configurations
level_boxes(image_size, configs) ==
    LET stride == configs[1][1]
        x == arange(image_size[2], stride)
        y == arange(image_size[1], stride)
        A == Len(configs)
    IN  [r \in 1..(Len(y) * Len(x) * A) |->
            LET cell == (r - 1) \div A
                config == configs[((r - 1) % A) + 1]
            IN  [stride |-> config[1], octave_scale |-> config[2],
                 aspect |-> config[3],
                 yv |-> y[(cell \div Len(x)) + 1],
                 xv |-> x[(cell % Len(x)) + 1]]]

\* L52-78 from the p-th item of anchor_configs on: L57 tests the height,
\* image_size[0], and nothing tests the width
RECURSIVE boxes_all(_, _, _)
boxes_all(image_size, anchor_configs, p) ==
    IF p > Len(anchor_configs) THEN [kind |-> "array", value |-> <<>>]
    ELSE LET configs == anchor_configs[p][2]
             stride == configs[1][1]
         IN  IF image_size[1] % stride # 0 THEN Raised("ValueError", 58)
             ELSE LET rest == boxes_all(image_size, anchor_configs, p + 1)
                  IN  IF rest.kind = "raised" THEN rest
                      ELSE [kind |-> "array",
                            value |-> level_boxes(image_size, configs) \o rest.value]

_generate_anchor_boxes(image_size, anchor_configs) ==
    boxes_all(image_size, anchor_configs, 1)

AnchorInit ==
    /\ \E h, w \in 1..MaxImageSize : \E min_level \in 0..MaxLevel :
       \E max_level \in min_level..MaxLevel :
       \E num_scales \in 1..MaxScales : \E a \in 1..MaxAspects :
          locals = [op |-> "anchors", image_size |-> <<h, w>>,
                    min_level |-> min_level, max_level |-> max_level,
                    num_scales |-> num_scales,
                    aspect_ratios |-> [i \in 1..a |-> i],
                    anchor_configs |-> <<>>]
    /\ predicted_boxes = <<>>
    /\ predicted_scores = <<>>
    /\ called = "none"
    /\ build = NoBuild
    /\ ret = [kind |-> "none"]
    /\ again = [kind |-> "none"]

\* efficientdet.py L102
Call__generate_anchor_configs ==
    /\ called = "none"
    /\ locals.op = "anchors"
    /\ called' = "_generate_anchor_configs"
    /\ locals' = [locals EXCEPT !.anchor_configs =
                     _generate_anchor_configs(locals.min_level, locals.max_level,
                                              locals.num_scales, locals.aspect_ratios)]
    /\ UNCHANGED <<predicted_boxes, predicted_scores, build, ret, again>>

\* efficientdet.py L103
Call__generate_anchor_boxes ==
    /\ called = "_generate_anchor_configs"
    /\ called' = "_generate_anchor_boxes"
    /\ ret' = _generate_anchor_boxes(locals.image_size, locals.anchor_configs)
    /\ UNCHANGED <<predicted_boxes, predicted_scores, build, locals, again>>

AnchorNext ==
    \/ Call__generate_anchor_configs
    \/ Call__generate_anchor_boxes

AnchorSpec == AnchorInit /\ [][AnchorNext]_vars

(***************************************************************************)
(* Properties.                                                             *)
(***************************************************************************)
Variants == {"standard", "fast", "soft", "combined"}

\* the anchors that pass the score gate of batch_threshold
passing == {n \in 1..NumAnchors : reduce_max(predicted_scores[n]) > score_threshold}

\* the valid slots of a returned dict as (box, score, class) triples
detections(r) ==
    {<<r.nmsed_boxes[s], r.nmsed_scores[s], r.nmsed_classes[s]>> :
        s \in 1..r.valid_detections}

\* row r of the thresholder's output holds anchor n: its box, and its score
\* vector with the best score kept and every entry either kept or zeroed
row_is_anchor(out, r, n) ==
    /\ out.boxes[r] = predicted_boxes[n]
    /\ reduce_max(out.scores[r]) = reduce_max(predicted_scores[n])
    /\ \A c \in 1..NumClasses : out.scores[r][c] \in {0, predicted_scores[n][c]}

\* C2: for every NMS variant that returns detections, every valid slot scores
\* above score_threshold, so no candidate whose best-class score is less than
\* or equal to score_threshold is a returned detection; and every per-class
\* selection of the standard variant scores above score_threshold.
C2_ScoreGate ==
    /\ (called \in Variants /\ ret.kind = "dict") =>
          \A s \in 1..ret.valid_detections :
              /\ ret.nmsed_scores[s] > score_threshold
              /\ \A n \in 1..NumAnchors :
                    reduce_max(predicted_scores[n]) <= score_threshold =>
                        ~(/\ ret.nmsed_boxes[s] = predicted_boxes[n]
                          /\ ret.nmsed_scores[s] = reduce_max(predicted_scores[n]))
    /\ (called = "standard" /\ locals.op = "standard") =>
          \A i \in 1..Len(locals.tmp_scores) : locals.tmp_scores[i] > score_threshold

\* a combined call returned a detection for an image that holds a gated anchor
C2_Witness ==
    /\ called = "combined"
    /\ ret.kind = "dict"
    /\ ret.valid_detections >= 1
    /\ passing # 1..NumAnchors

\* C5: batch_threshold returns exactly K box rows and K score rows.  With m
\* anchors passing the gate, the first min(m, K) rows hold distinct passing
\* anchors, no passing anchor left out scores higher than one returned, and
\* the remaining rows are zero boxes and zero score vectors.
C5_ThresholdTopK ==
    called = "batch_threshold" =>
        LET out == ret.value
            k == pre_nms_size
            q == Min2(Cardinality(passing), k)
        IN  /\ Len(out.boxes) = k
            /\ Len(out.scores) = k
            /\ \E g \in [1..q -> passing] :
                  /\ \A r1, r2 \in 1..q : r1 # r2 => g[r1] # g[r2]
                  /\ \A r \in 1..q : row_is_anchor(out, r, g[r])
                  /\ \A n \in passing \ Range(g) : \A r \in 1..q :
                        reduce_max(predicted_scores[n])
                            <= reduce_max(predicted_scores[g[r]])
            /\ \A r \in (q + 1)..k :
                  out.boxes[r] = ZeroBox /\ out.scores[r] = ZeroVec

\* more than K anchors pass, and the first of them scores lowest
C5_Witness ==
    /\ called = "batch_threshold"
    /\ Cardinality(passing) > pre_nms_size
    /\ \A n \in passing \ {1} :
          reduce_max(predicted_scores[1]) < reduce_max(predicted_scores[n])

\* C10: a layer called again on the detections it returned, with
\* the same thresholds and sizes, returns the same detections.
C10_Idempotent ==
    again.kind = "dict" =>
        /\ detections(again) = detections(ret)
        /\ again.valid_detections = ret.valid_detections

\* The part of idempotence that holds: a layer called again on the detections
\* it returned returns the same detections whenever those detections number at
\* most pre_nms_size, the number of rows batch_threshold keeps.
IdempotentWithinPreNms ==
    (again.kind = "dict" /\ ret.valid_detections <= pre_nms_size) =>
        /\ detections(again) = detections(ret)
        /\ again.valid_detections = ret.valid_detections

\* IoU as the specification defines it: intersection over union, and 0 when
\* the union has no area
spec_iou(a, b) ==
    LET h == Max2(0, Min2(a[3], b[3]) - Max2(a[1], b[1]))
        w == Max2(0, Min2(a[4], b[4]) - Max2(a[2], b[2]))
        union == (a[3] - a[1]) * (a[4] - a[2]) + (b[3] - b[1]) * (b[4] - b[2]) - h * w
    IN  IF union = 0 THEN Float(0) ELSE <<h * w, union>>

box_area(b) == (b[3] - b[1]) * (b[4] - b[2])

\* C1: every variant returns, for the image, exactly post_nms_size slots with
\* valid_detections in 0..post_nms_size, the first valid_detections slots with
\* class_id # -1 and every other slot a zero box, a zero score and class_id -1.
C1_FixedSizeOutput ==
    called \in Variants =>
        /\ ret.kind = "dict"
        /\ Len(ret.nmsed_boxes) = post_nms_size
        /\ Len(ret.nmsed_scores) = post_nms_size
        /\ Len(ret.nmsed_classes) = post_nms_size
        /\ ret.valid_detections \in 0..post_nms_size
        /\ \A s \in 1..post_nms_size :
              IF s <= ret.valid_detections
              THEN ret.nmsed_classes[s] # -1
              ELSE /\ ret.nmsed_boxes[s] = ZeroBox
                   /\ ret.nmsed_scores[s] = 0
                   /\ ret.nmsed_classes[s] = -1

\* two thresholded candidates of one class with IoU above iou_threshold
overlapping(r, s1, s2) ==
    /\ r.nmsed_classes[s1] = r.nmsed_classes[s2]
    /\ fgreater(spec_iou(r.nmsed_boxes[s1], r.nmsed_boxes[s2]), iou_threshold)

\* C3: standard NMS returns no two detections of one class with IoU above
\* iou_threshold, and of two identical boxes of one class, both above the
\* score threshold, it returns exactly one detection, with the higher score.
C3_StandardNoOverlap ==
    called = "standard" =>
        /\ ret.kind = "dict" =>
              \A s1, s2 \in 1..ret.valid_detections :
                  s1 # s2 => ~overlapping(ret, s1, s2)
        /\ \A n1, n2 \in passing :
              (/\ n1 # n2
               /\ predicted_boxes[n1] = predicted_boxes[n2]
               /\ box_area(predicted_boxes[n1]) > 0
               /\ argmax(predicted_scores[n1]) = argmax(predicted_scores[n2])
               /\ reduce_max(predicted_scores[n1]) >= reduce_max(predicted_scores[n2])
               /\ \A n \in passing : reduce_max(predicted_scores[n])
                                        <= reduce_max(predicted_scores[n1]))
              => /\ ret.kind = "dict"
                 /\ Cardinality({s \in 1..ret.valid_detections :
                        /\ ret.nmsed_boxes[s] = predicted_boxes[n1]
                        /\ ret.nmsed_classes[s] = argmax(predicted_scores[n1])}) = 1
                 /\ \E s \in 1..ret.valid_detections :
                        /\ ret.nmsed_boxes[s] = predicted_boxes[n1]
                        /\ ret.nmsed_scores[s] = reduce_max(predicted_scores[n1])

\* C4: standard NMS returns the per-class selections of the image sorted by
\* score descending and cut to post_nms_size: the valid slots are the
\* post_nms_size highest-scored selections, best first.
C4_StandardSortedTopN ==
    called = "standard" =>
        LET order == argsort_desc(locals.tmp_scores)
            num == Min2(Len(order), post_nms_size)
        IN  /\ ret.kind = "dict"
            /\ ret.valid_detections = num
            /\ \A s \in 1..num :
                  /\ ret.nmsed_boxes[s] = locals.tmp_boxes[order[s]]
                  /\ ret.nmsed_scores[s] = locals.tmp_scores[order[s]]
                  /\ ret.nmsed_classes[s] = locals.tmp_classes[order[s]]
            /\ \A s \in 1..(num - 1) : ret.nmsed_scores[s] >= ret.nmsed_scores[s + 1]

\* C6: in Fast NMS the box at rank j of a class row is kept if and only if
\* its IoU with every box ranked above it in the row is below iou_threshold
\* and its own score is above score_threshold, whether or not those boxes
\* were kept.
C6_FastKeepRule ==
    called = "fast" =>
        \A c \in 1..NumClasses : \A j \in 1..pre_nms_size :
            locals.keep[c][j] <=>
                /\ \A i \in 1..(j - 1) :
                      fless(spec_iou(locals.sorted_boxes[c][i],
                                     locals.sorted_boxes[c][j]), iou_threshold)
                /\ locals.sorted_scores[c][j] > score_threshold

\* C7: every variant returns the four fields, and each valid slot holds the
\* four coordinates of one input candidate in nmsed_boxes, that candidate's
\* best-class score in nmsed_scores and its argmax class in nmsed_classes.
C7_SlotsAreCandidates ==
    called \in Variants =>
        /\ ret.kind = "dict"
        /\ Len(ret.nmsed_boxes) = post_nms_size
        /\ \A s \in 1..ret.valid_detections :
              \E n \in 1..NumAnchors :
                  /\ ret.nmsed_boxes[s] = predicted_boxes[n]
                  /\ ret.nmsed_scores[s] = reduce_max(predicted_scores[n])
                  /\ ret.nmsed_classes[s] = argmax(predicted_scores[n])

\* C8: unaligned_box_iou gives 0, not NaN, for every pair of boxes whose
\* union has no area, and whether a box with area is kept does not depend on
\* the boxes without area ranked above it.
C8_ZeroUnionIoU ==
    called = "fast" =>
        \A c \in 1..NumClasses :
            /\ \A i, j \in 1..pre_nms_size :
                  spec_iou(locals.sorted_boxes[c][i], locals.sorted_boxes[c][j]) = Float(0)
                      => /\ ~IsNaN(locals.raw_ious[c][i][j])
                         /\ fequal(locals.raw_ious[c][i][j], Float(0))
            /\ \A j \in 1..pre_nms_size :
                  box_area(locals.sorted_boxes[c][j]) > 0 =>
                      (locals.keep[c][j] <=>
                          /\ \A i \in 1..(j - 1) :
                                box_area(locals.sorted_boxes[c][i]) > 0 =>
                                    fless(spec_iou(locals.sorted_boxes[c][i],
                                                   locals.sorted_boxes[c][j]),
                                          iou_threshold)
                          /\ locals.sorted_scores[c][j] > score_threshold)

\* C9: for the same image, thresholds and sizes, CombinedNonMaxSuppression
\* and BatchNonMaxSuppression return the same boxes, scores, classes and
\* valid_detections.
C9_CombinedEqualsStandard ==
    called = "combined" =>
        \A has_cfg \in BOOLEAN :
            LET std == BatchNonMaxSuppression_result(
                           standard_locals(predicted_boxes, predicted_scores), has_cfg)
            IN  /\ std.kind = "dict"
                /\ ret.kind = "dict"
                /\ std.nmsed_boxes = ret.nmsed_boxes
                /\ std.nmsed_scores = ret.nmsed_scores
                /\ std.nmsed_classes = ret.nmsed_classes
                /\ std.valid_detections = ret.valid_detections

\* C11: in Soft-NMS every multiplication of a candidate's score by the weight
\* of a selected box lowers the score when the two boxes' IoU is above 0 and
\* leaves it unchanged when the IoU is 0; the scores gathered for the output
\* are the kernel's decayed scores, and the call returns them.
C11_SoftDecay ==
    locals.op = "soft" =>
        /\ \A r \in 1..Len(locals.k.decays) :
              LET d == locals.k.decays[r]
              IN  /\ fgreater(d.iou, Float(0)) => d.after < d.before
                  /\ fequal(d.iou, Float(0)) => d.after = d.before
        /\ \A r \in 1..Len(locals.tmp_scores) :
              to_kernel(locals.tmp_scores[r]) = locals.tmp_kernel_scores[r]
        /\ locals.pc \in {"raised", "done"} =>
              /\ ret.kind = "dict"
              /\ \A r \in 1..ret.valid_detections :
                    to_kernel(ret.nmsed_scores[r]) = locals.tmp_kernel_scores[r]

\* the strides of the pyramid levels of the call
strides == {2 ^ level : level \in locals.min_level..locals.max_level}

\* the anchors of the levels from level on, when every stride divides the
\* image size: per level (H / stride) * (W / stride) cells, each with all the
\* configurations of the level
RECURSIVE expected_anchors(_)
expected_anchors(level) ==
    IF level > locals.max_level THEN <<>>
    ELSE LET stride == 2 ^ level
             H == locals.image_size[1] \div stride
             W == locals.image_size[2] \div stride
             A == locals.num_scales * Len(locals.aspect_ratios)
         IN  [r \in 1..(H * W * A) |-> stride] \o expected_anchors(level + 1)

\* C12: _generate_anchor_boxes raises, and returns no anchors, whenever the
\* height or the width of the image is not a multiple of the stride of some
\* level; otherwise it returns, level after level, (H / stride) * (W / stride)
\* * (number of configurations) anchors of each level.
C12_AnchorGeneration ==
    called = "_generate_anchor_boxes" =>
        IF \E stride \in strides : \/ locals.image_size[1] % stride # 0
                                   \/ locals.image_size[2] % stride # 0
        THEN ret.kind = "raised"
        ELSE /\ ret.kind = "array"
             /\ [r \in 1..Len(ret.value) |-> ret.value[r].stride]
                    = expected_anchors(locals.min_level)

\* greedy NMS on the thresholded candidates of class c, with no limit on the
\* number of selections: the indices of the selected rows
greedy_class(c) ==
    non_max_suppression(locals.thresholded.boxes,
                        [n \in 1..pre_nms_size |-> locals.thresholded.scores[n][c]],
                        pre_nms_size, iou_threshold, score_threshold, FALSE)

====
